---- MODULE Spec2Model ----
(***************************************************************************)
(* Bitcoin Script subsystem of bitcore: lib/script.js (parser, serializer, *)
(* text form, classifier, mutators, builders).                             *)
(*                                                                         *)
(* Representation choices.                                                  *)
(*  - A byte buffer is a run-length encoded byte sequence: a sequence of    *)
(*    runs [b |-> byte, n |-> count], n >= 1, adjacent runs with different  *)
(*    bytes.  The encoding is canonical, so buffer equality is value        *)
(*    equality, and it keeps payloads of 2^16 or 2^32 bytes finite.         *)
(*  - A JavaScript number that holds a length is a pair of 16-bit limbs     *)
(*    [hi, lo] (value hi * 2^16 + lo), because 2^32 does not fit a model    *)
(*    integer.  NaN is the pair with hi = -1.                               *)
(*  - A chunk is a record [opcodenum] (bare) or [opcodenum, buf, len]       *)
(*    (push), as the untyped objects of the source.                         *)
(***************************************************************************)
EXTENDS Integers, Sequences, FiniteSets, TLC

VARIABLES script, other, op, arg, ret

vars == <<script, other, op, arg, ret>>

(***************************************************************************)
(* Bounds of the model.                                                     *)
(***************************************************************************)
\* longest enumerated input of the byte parser
MaxBufLen == 5
\* longest enumerated input of the text parser, in tokens
MaxTokens == 3
\* most chunks of a script built of payloads of every length class
MaxAddChunks == 2
\* most chunks of a script that add and prepend extend
MaxChunks == 3

\* the most chunks of a script that is compared with another
MaxEqChunks == 2

\* the most public keys given to buildMultisigOut
MaxKeys == 3

\* the most chunks of a script that shares its chunks array
MaxShareChunks == 3

\* the most bytes of a script that is parsed and then classified
MaxClassifyLen == 4

\* the most chunks of the Script object of an Input
MaxInputChunks == 2

(***************************************************************************)
(* Opcode values (lib/opcode.js, the Bitcoin opcode table).                 *)
(***************************************************************************)
OP_0 == 0
OP_PUSHDATA1 == 76
OP_PUSHDATA2 == 77
OP_PUSHDATA4 == 78
OP_1 == 81
OP_16 == 96
OP_RETURN == 106
OP_DUP == 118
OP_EQUAL == 135
OP_EQUALVERIFY == 136
OP_HASH160 == 169
OP_CODESEPARATOR == 171
OP_CHECKSIG == 172
OP_CHECKMULTISIG == 174

(***************************************************************************)
(* Numbers: 16-bit limbs.                                                   *)
(***************************************************************************)
Limb == 65536

Num(n) == [hi |-> n \div Limb, lo |-> n % Limb]

NaN == [hi |-> -1, lo |-> 0]

IsNaN(a) == a.hi < 0

\* a < b for numbers; false when either is NaN, as in JavaScript
NumLt(a, b) ==
  /\ ~IsNaN(a)
  /\ ~IsNaN(b)
  /\ \/ a.hi < b.hi
     \/ a.hi = b.hi /\ a.lo < b.lo

\* the value as a model integer, for numbers below 2^31
NumVal(a) == a.hi * Limb + a.lo

\* whether the number fits a model integer
NumSmall(a) == a.hi >= 0 /\ a.hi < 32768

\* 2^8, 2^16 and 2^32 as numbers (Math.pow(2, k))
Pow2_8 == [hi |-> 0, lo |-> 256]
Pow2_16 == [hi |-> 1, lo |-> 0]
Pow2_32 == [hi |-> Limb, lo |-> 0]

(***************************************************************************)
(* Buffers: run-length encoded byte sequences.                              *)
(***************************************************************************)
EmptyBuf == <<>>

Run(b, n) == IF n = 0 THEN <<>> ELSE <<[b |-> b, n |-> n]>>

\* Buffer.concat of two buffers
Cat(x, y) ==
  IF x = <<>> THEN y
  ELSE IF y = <<>> THEN x
  ELSE IF x[Len(x)].b = y[1].b
       THEN SubSeq(x, 1, Len(x) - 1)
              \o <<[b |-> y[1].b, n |-> x[Len(x)].n + y[1].n]>>
              \o Tail(y)
       ELSE x \o y

RECURSIVE Bytes(_)
\* the buffer holding the bytes of an explicit sequence
Bytes(s) == IF s = <<>> THEN <<>> ELSE Cat(Run(s[1], 1), Bytes(Tail(s)))

RECURSIVE BLen(_)
\* buf.length, for buffers shorter than 2^31
BLen(buf) == IF buf = <<>> THEN 0 ELSE buf[1].n + BLen(Tail(buf))

RECURSIVE SumHi(_)
SumHi(buf) == IF buf = <<>> THEN 0 ELSE (buf[1].n \div Limb) + SumHi(Tail(buf))

RECURSIVE SumLo(_)
SumLo(buf) == IF buf = <<>> THEN 0 ELSE (buf[1].n % Limb) + SumLo(Tail(buf))

\* buf.length as a number, for buffers of any length
BufLength(buf) ==
  [hi |-> SumHi(buf) + (SumLo(buf) \div Limb), lo |-> SumLo(buf) % Limb]

RECURSIVE At(_, _)
\* buf[i], 0-based, for i < buf.length
At(buf, i) == IF i < buf[1].n THEN buf[1].b ELSE At(Tail(buf), i - buf[1].n)

RECURSIVE Drop(_, _)
\* buf.slice(k), for k <= buf.length
Drop(buf, k) ==
  IF k = 0 \/ buf = <<>> THEN buf
  ELSE IF k < buf[1].n
       THEN <<[b |-> buf[1].b, n |-> buf[1].n - k]>> \o Tail(buf)
       ELSE Drop(Tail(buf), k - buf[1].n)

RECURSIVE Take(_, _)
\* buf.slice(0, k), for k <= buf.length
Take(buf, k) ==
  IF k = 0 \/ buf = <<>> THEN <<>>
  ELSE IF k <= buf[1].n
       THEN <<[b |-> buf[1].b, n |-> k]>>
       ELSE <<buf[1]>> \o Take(Tail(buf), k - buf[1].n)

\* buf.slice(start, start + k) inside the buffer
Slice(buf, start, k) == Take(Drop(buf, start), k)

(***************************************************************************)
(* Byte reader and writer (lib/encoding/bufferreader.js, bufferwriter.js): *)
(* sequential reads that fail with Truncated past the end of the stream,   *)
(* little-endian unsigned writes that cannot fail.                         *)
(***************************************************************************)
\* br.eof()
BrEof(buf, pos) == pos >= BLen(buf)

\* whether n more bytes can be read at pos (n a number)
BrHas(buf, pos, n) == NumSmall(n) /\ pos + NumVal(n) <= BLen(buf)

\* br.readUInt8(), br.readUInt16LE(), br.readUInt32LE() at pos, as a number
ReadUInt8(buf, pos) == [hi |-> 0, lo |-> At(buf, pos)]

ReadUInt16LE(buf, pos) == [hi |-> 0, lo |-> At(buf, pos) + 256 * At(buf, pos + 1)]

ReadUInt32LE(buf, pos) ==
  [hi |-> At(buf, pos + 2) + 256 * At(buf, pos + 3),
   lo |-> At(buf, pos) + 256 * At(buf, pos + 1)]

\* bw.writeUInt8(n), bw.writeUInt16LE(n), bw.writeUInt32LE(n): the low bytes
WriteUInt8(n) == IF IsNaN(n) THEN Run(0, 1) ELSE Run(n.lo % 256, 1)

WriteUInt16LE(n) ==
  IF IsNaN(n) THEN Run(0, 2)
  ELSE Cat(Run(n.lo % 256, 1), Run(n.lo \div 256, 1))

WriteUInt32LE(n) ==
  IF IsNaN(n) THEN Run(0, 4)
  ELSE Cat(WriteUInt16LE(n),
           Cat(Run(n.hi % 256, 1), Run((n.hi \div 256) % 256, 1)))

(***************************************************************************)
(* Script.fromBuffer: bytes -> chunk sequence.                              *)
(***************************************************************************)
\* a result of a parser: the error kind ("none" when it succeeded) and the
\* chunks of the script it returns
Ok(chunks) == [err |-> "none", chunks |-> chunks]

Fail(kind) == [err |-> kind, chunks |-> <<>>]

\* ret before any call
NoResult == [call |-> "none", err |-> "none"]

PushChunk(opcodenum, buf, len) == [opcodenum |-> opcodenum, buf |-> buf, len |-> len]

BareChunk(opcodenum) == [opcodenum |-> opcodenum]

\* chunk.buf is set (a Buffer object is truthy, also when empty)
HasBuf(chunk) == "buf" \in DOMAIN chunk

\* mutant: the direct-push branch misses opcode 1
IsDirectPushOp_From2(opcodenum) == opcodenum > 1 /\ opcodenum < OP_PUSHDATA1

\* the branch of a direct push: opcodenum > 0 && opcodenum < Opcode.OP_PUSHDATA1
IsDirectPushOp(opcodenum) == opcodenum > 0 /\ opcodenum < OP_PUSHDATA1

\* the width in bytes of the length field that follows the opcode byte
LenFieldWidth(opcodenum) ==
  IF opcodenum = OP_PUSHDATA1 THEN 1
  ELSE IF opcodenum = OP_PUSHDATA2 THEN 2
  ELSE IF opcodenum = OP_PUSHDATA4 THEN 4
  ELSE 0

\* the declared length read for the chunk whose opcode byte is at pos
ReadLen(buf, pos, opcodenum) ==
  IF opcodenum = OP_PUSHDATA1 THEN ReadUInt8(buf, pos + 1)
  ELSE IF opcodenum = OP_PUSHDATA2 THEN ReadUInt16LE(buf, pos + 1)
  ELSE IF opcodenum = OP_PUSHDATA4 THEN ReadUInt32LE(buf, pos + 1)
  ELSE Num(opcodenum)

RECURSIVE ParseFrom(_, _, _)
\* the loop of Script.fromBuffer from reader position pos on
ParseFrom(buf, pos, chunks) ==
  IF BrEof(buf, pos) THEN Ok(chunks)
  ELSE
    LET opcodenum == At(buf, pos)
        w == LenFieldWidth(opcodenum)
    IN
      IF IsDirectPushOp(opcodenum) \/ w > 0
      THEN
        IF ~BrHas(buf, pos + 1, Num(w)) THEN Fail("Truncated")
        ELSE
          LET len == ReadLen(buf, pos, opcodenum)
              at == pos + 1 + w
          IN
            IF ~BrHas(buf, at, len) THEN Fail("Truncated")
            ELSE ParseFrom(buf, at + NumVal(len),
                   Append(chunks,
                     PushChunk(opcodenum, Slice(buf, at, NumVal(len)), len)))
      ELSE ParseFrom(buf, pos + 1, Append(chunks, BareChunk(opcodenum)))

fromBuffer(buf) == ParseFrom(buf, 0, <<>>)

(***************************************************************************)
(* Script.prototype.toBuffer: chunk sequence -> bytes.                      *)
(***************************************************************************)
\* mutant: an empty payload counts as no payload (if (chunk.buf.length))
ChunkToBuffer_EmptyAsBare(chunk) ==
  Cat(WriteUInt8(Num(chunk.opcodenum)),
      IF HasBuf(chunk) /\ chunk.buf # EmptyBuf
      THEN
        IF chunk.opcodenum < OP_PUSHDATA1 THEN chunk.buf
        ELSE IF chunk.opcodenum = OP_PUSHDATA1
             THEN Cat(WriteUInt8(chunk.len), chunk.buf)
        ELSE IF chunk.opcodenum = OP_PUSHDATA2
             THEN Cat(WriteUInt16LE(chunk.len), chunk.buf)
        ELSE IF chunk.opcodenum = OP_PUSHDATA4
             THEN Cat(WriteUInt32LE(chunk.len), chunk.buf)
        ELSE EmptyBuf
      ELSE EmptyBuf)

\* what the serializer writes for one chunk
ChunkToBuffer(chunk) ==
  Cat(WriteUInt8(Num(chunk.opcodenum)),
      IF HasBuf(chunk)
      THEN
        IF chunk.opcodenum < OP_PUSHDATA1 THEN chunk.buf
        ELSE IF chunk.opcodenum = OP_PUSHDATA1
             THEN Cat(WriteUInt8(chunk.len), chunk.buf)
        ELSE IF chunk.opcodenum = OP_PUSHDATA2
             THEN Cat(WriteUInt16LE(chunk.len), chunk.buf)
        ELSE IF chunk.opcodenum = OP_PUSHDATA4
             THEN Cat(WriteUInt32LE(chunk.len), chunk.buf)
        ELSE EmptyBuf
      ELSE EmptyBuf)

RECURSIVE toBuffer(_)
toBuffer(chunks) ==
  IF chunks = <<>> THEN EmptyBuf
  ELSE Cat(ChunkToBuffer(chunks[1]), toBuffer(Tail(chunks)))

(***************************************************************************)
(* Mutators: add, prepend (Script.prototype._addByType and below).  A      *)
(* mutator returns the error kind and the receiver's chunks after the call.*)
(***************************************************************************)
\* Script.prototype._insertAtPosition
insertAtPosition(chunks, chunk, prepend) ==
  IF prepend THEN <<chunk>> \o chunks ELSE Append(chunks, chunk)

\* Script.prototype._addOpcode, for an opcode given by number, by name or as
\* an Opcode object
addOpcode(chunks, opcodenum, prepend) ==
  Ok(insertAtPosition(chunks, BareChunk(opcodenum), prepend))

\* mutant: OP_PUSHDATA4 also for a payload of 2^32 bytes (len <= 2^32)
addBuffer_Le32(chunks, buf, prepend) ==
  LET len == BufLength(buf) IN
    IF len = Num(0) THEN Ok(chunks)
    ELSE
      LET opcodenum ==
            IF NumLt(Num(0), len) /\ NumLt(len, Num(OP_PUSHDATA1)) THEN NumVal(len)
            ELSE IF NumLt(len, Pow2_8) THEN OP_PUSHDATA1
            ELSE IF NumLt(len, Pow2_16) THEN OP_PUSHDATA2
            ELSE IF NumLt(len, Pow2_32) \/ len = Pow2_32 THEN OP_PUSHDATA4
            ELSE -1
      IN
        IF opcodenum = -1 THEN [err |-> "PayloadTooLarge", chunks |-> chunks]
        ELSE Ok(insertAtPosition(chunks, PushChunk(opcodenum, buf, len), prepend))

\* Script.prototype._addBuffer
addBuffer(chunks, buf, prepend) ==
  LET len == BufLength(buf) IN
    IF len = Num(0) THEN Ok(chunks)
    ELSE
      LET opcodenum ==
            IF NumLt(Num(0), len) /\ NumLt(len, Num(OP_PUSHDATA1)) THEN NumVal(len)
            ELSE IF NumLt(len, Pow2_8) THEN OP_PUSHDATA1
            ELSE IF NumLt(len, Pow2_16) THEN OP_PUSHDATA2
            ELSE IF NumLt(len, Pow2_32) THEN OP_PUSHDATA4
            ELSE -1
      IN
        IF opcodenum = -1 THEN [err |-> "PayloadTooLarge", chunks |-> chunks]
        ELSE Ok(insertAtPosition(chunks, PushChunk(opcodenum, buf, len), prepend))

(***************************************************************************)
(* SpecAdd: add and prepend of byte payloads of every length class, on a   *)
(* script that starts empty.                                                *)
(***************************************************************************)
\* 2^30 bytes, the unit the longest payloads are made of
Chunk30 == 1073741824

\* a payload of n * 2^30 bytes, in runs of alternating bytes
RECURSIVE Huge(_)
Huge(n) ==
  IF n = 0 THEN EmptyBuf
  ELSE Huge(n - 1) \o <<[b |-> 1 + (n % 2), n |-> Chunk30]>>

\* payloads of length 0, 1, 75, 76, 255, 256, 2^16 - 1, 2^16, 2^31,
\* 2^32 - 1, 2^32, 2^32 + 1 and 2^33
AddPayloads ==
  { EmptyBuf, Run(7, 1), Run(7, 75), Run(7, 76), Run(7, 255), Run(7, 256),
    Run(7, 65535), Run(7, 65536), Huge(2),
    Huge(3) \o <<[b |-> 1, n |-> Chunk30 - 1]>>,
    Huge(4), Huge(4) \o <<[b |-> 3, n |-> 1]>>, Huge(8) }

InitAdd ==
  /\ script = <<>>
  /\ other = <<>>
  /\ op = "new"
  /\ arg = EmptyBuf
  /\ ret = NoResult

\* script.add(buf)
AddPayload(buf) ==
  /\ Len(script) < MaxAddChunks
  /\ LET r == addBuffer(script, buf, FALSE) IN
       /\ script' = r.chunks
       /\ ret' = [call |-> "add", err |-> r.err]
  /\ op' = "add"
  /\ arg' = buf
  /\ other' = other

\* script.prepend(buf)
PrependPayload(buf) ==
  /\ Len(script) < MaxAddChunks
  /\ LET r == addBuffer(script, buf, TRUE) IN
       /\ script' = r.chunks
       /\ ret' = [call |-> "prepend", err |-> r.err]
  /\ op' = "prepend"
  /\ arg' = buf
  /\ other' = other

NextAdd ==
  \/ \E buf \in AddPayloads : AddPayload(buf)
  \/ \E buf \in AddPayloads : PrependPayload(buf)

SpecAdd == InitAdd /\ [][NextAdd]_vars

(***************************************************************************)
(* C4: for a byte payload of length L passed to add/prepend: if L = 0 the  *)
(* script is unchanged; if 0 < L < 0x4c the inserted chunk has opcode L;   *)
(* else if L < 2^8 OP_PUSHDATA1; else if L < 2^16 OP_PUSHDATA2; else if    *)
(* L < 2^32 OP_PUSHDATA4; otherwise the call fails (PayloadTooLarge) and   *)
(* inserts nothing.  In every successful case the chunk's payload is the   *)
(* input and its declared length is L.                                      *)
(***************************************************************************)
\* the opcode the rule selects for a length of limbs hi, lo (0 < L < 2^32)
MinimalPushOp(L) ==
  IF L.hi = 0 /\ L.lo < 76 THEN L.lo
  ELSE IF L.hi = 0 /\ L.lo < 256 THEN OP_PUSHDATA1
  ELSE IF L.hi = 0 THEN OP_PUSHDATA2
  ELSE OP_PUSHDATA4

\* the step from chunks before to chunks after is what the rule says of a
\* call with payload buf that ended with error kind err
RuleOfAdd(before, after, buf, err, atFront) ==
  LET L == BufLength(buf) IN
    IF L = [hi |-> 0, lo |-> 0] THEN err = "none" /\ after = before
    ELSE IF L.hi >= 65536 THEN err = "PayloadTooLarge" /\ after = before
    ELSE
      /\ err = "none"
      /\ Len(after) = Len(before) + 1
      /\ LET at == IF atFront THEN 1 ELSE Len(after) IN
           /\ after[at] = [opcodenum |-> MinimalPushOp(L), buf |-> buf, len |-> L]
           /\ \A i \in 1..Len(before) :
                after[IF atFront THEN i + 1 ELSE i] = before[i]

C4_MinimalPush ==
  [][op' \in {"add", "prepend"} =>
       RuleOfAdd(script, script', arg', ret'.err, op' = "prepend")]_vars

\* a payload of 2^32 - 1 bytes was appended after another chunk
C4_Witness ==
  /\ op = "add"
  /\ BufLength(arg) = [hi |-> 65535, lo |-> 65535]
  /\ Len(script) = 2
  /\ script[2].opcodenum = OP_PUSHDATA4


(***************************************************************************)
(* Text form.  A string is the sequence of its space-separated tokens; the *)
(* empty string is the empty sequence.  A token is                         *)
(*   [k = "name", op]       the canonical name of opcode op ("OP_DUP")     *)
(*   [k = "dec", n]         the decimal numeral of n ("75"; "NaN" for NaN) *)
(*   [k = "0x", odd, bytes] "0x" and hex digits: one leading digit odd     *)
(*                          (-1 when the digit count is even), then the    *)
(*                          two digits of each byte                        *)
(*   [k = "hex", bytes]     hex digits with no prefix, two for each byte,  *)
(*                          the first one a letter                         *)
(*   [k = "empty"]          the empty token                                *)
(***************************************************************************)
TName(n) == [k |-> "name", op |-> n]

TDec(n) == [k |-> "dec", n |-> n]

THex(odd, bytes) == [k |-> "0x", odd |-> odd, bytes |-> bytes]

TRaw(bytes) == [k |-> "hex", bytes |-> bytes]

TEmpty == [k |-> "empty"]

\* opcodes with a canonical name in Opcode.map / Opcode.reverseMap
NamedOpcodes == {0} \cup (76..185) \cup {249, 250, 251, 253, 254, 255}

\* typeof Opcode.reverseMap[opcodenum] !== 'undefined'
HasName(opcodenum) == opcodenum \in NamedOpcodes

\* opcodenum.toString(16) after "0x"
OpcodeHexToken(opcodenum) ==
  IF opcodenum < 16 THEN THex(opcodenum, EmptyBuf)
  ELSE THex(-1, Run(opcodenum, 1))

\* the tokens Script.prototype.toString appends for one chunk
ChunkToString(chunk) ==
  IF ~HasBuf(chunk)
  THEN IF HasName(chunk.opcodenum)
       THEN <<TName(chunk.opcodenum)>>
       ELSE <<OpcodeHexToken(chunk.opcodenum)>>
  ELSE (IF chunk.opcodenum \in {OP_PUSHDATA1, OP_PUSHDATA2, OP_PUSHDATA4}
        THEN <<TName(chunk.opcodenum)>>
        ELSE <<>>)
       \o <<TDec(chunk.len), THex(-1, chunk.buf)>>

RECURSIVE toString(_)
\* Script.prototype.toString
toString(chunks) ==
  IF chunks = <<>> THEN <<>>
  ELSE ChunkToString(chunks[1]) \o toString(Tail(chunks))

\* str.split(' ')
Split(str) == IF str = <<>> THEN <<TEmpty>> ELSE str

RECURSIVE DecDigits(_)
\* the decimal digits of n >= 0, most significant first
DecDigits(n) == IF n < 10 THEN <<n>> ELSE Append(DecDigits(n \div 10), n % 10)

RECURSIVE PairBytes(_)
\* new Buffer(digits, 'hex') for an even number of hex digits
PairBytes(d) ==
  IF d = <<>> THEN EmptyBuf
  ELSE Cat(Run(16 * d[1] + d[2], 1), PairBytes(Tail(Tail(d))))

\* new Buffer(digits, 'hex'): a result, with an error for an odd digit count
HexDecode(d) ==
  IF Len(d) % 2 = 1 THEN [err |-> "TypeError", buf |-> EmptyBuf]
  ELSE [err |-> "none", buf |-> PairBytes(d)]

\* jsUtil.isHexa(str): the whole string is hexadecimal digits
isHexa(str) ==
  /\ Len(str) = 1
  /\ \/ str[1].k = "hex"
     \/ str[1].k = "dec" /\ NumSmall(str[1].n)

\* new buffer.Buffer(str, 'hex') for a string that isHexa
HexStringBuffer(str) ==
  IF str[1].k = "hex" THEN [err |-> "none", buf |-> str[1].bytes]
  ELSE HexDecode(DecDigits(NumVal(str[1].n)))

\* Opcode(token).toNumber(): -1 stands for undefined
OpcodeOfToken(token) == IF token.k = "name" THEN token.op ELSE -1

\* the value of the leading bytes of a buffer of at most 4 bytes, big-endian
RECURSIVE BEValue(_, _)
BEValue(buf, acc) ==
  IF buf = <<>> THEN acc
  ELSE BEValue(Drop(buf, 1), 256 * acc + At(buf, 0))

\* parseInt(token): NaN for a token that starts with no digit.  A "0x"
\* numeral of more than 32 bits is given as 2^32.
parseInt(token) ==
  IF token.k = "dec" THEN token.n
  ELSE IF token.k = "0x" /\ (token.odd >= 0 \/ token.bytes # <<>>)
  THEN
    LET nb == BLen(token.bytes)
        lead == IF token.odd >= 0 THEN token.odd ELSE 0
    IN
      IF nb > 4 \/ (nb = 4 /\ lead > 0) THEN Pow2_32
      ELSE IF nb = 4
      THEN [hi |-> BEValue(Take(token.bytes, 2), 0),
            lo |-> BEValue(Drop(token.bytes, 2), 0)]
      ELSE IF nb = 3
      THEN [hi |-> 256 * lead + At(token.bytes, 0),
            lo |-> BEValue(Drop(token.bytes, 1), 0)]
      ELSE Num(BEValue(token.bytes, lead))
  ELSE NaN

\* new Buffer(tokens[at].slice(2), 'hex'): a result; tokens[at] may be missing
PayloadOfToken(tokens, at) ==
  IF at > Len(tokens) THEN [err |-> "TypeError", buf |-> EmptyBuf]
  ELSE
    LET token == tokens[at] IN
      IF token.k = "0x"
      THEN IF token.odd >= 0 THEN [err |-> "TypeError", buf |-> EmptyBuf]
           ELSE [err |-> "none", buf |-> token.bytes]
      ELSE IF token.k = "hex" THEN [err |-> "none", buf |-> Drop(token.bytes, 1)]
      ELSE IF token.k = "dec" /\ NumSmall(token.n)
      THEN LET d == DecDigits(NumVal(token.n)) IN
             HexDecode(IF Len(d) <= 2 THEN <<>> ELSE SubSeq(d, 3, Len(d)))
      ELSE IF token.k = "empty" THEN [err |-> "none", buf |-> EmptyBuf]
      ELSE [err |-> "TypeError", buf |-> EmptyBuf]

\* tokens[at].slice(0, 2) !== '0x' is false; tokens[at] may be missing
StartsWith0x(tokens, at) == at <= Len(tokens) /\ tokens[at].k = "0x"

RECURSIVE ParseTokens(_, _, _)
\* the token loop of Script.fromString from index i (1-based) on
ParseTokens(tokens, i, chunks) ==
  IF i > Len(tokens) THEN Ok(chunks)
  ELSE
    LET token == tokens[i]
        opcodenum == OpcodeOfToken(token)
    IN
      IF opcodenum = -1
      THEN
        LET n == parseInt(token) IN
          IF NumLt(Num(0), n) /\ NumLt(n, Num(OP_PUSHDATA1))
          THEN
            LET p == PayloadOfToken(tokens, i + 1) IN
              IF p.err # "none" THEN Fail(p.err)
              ELSE ParseTokens(tokens, i + 2,
                     Append(chunks, PushChunk(NumVal(n), p.buf, n)))
          ELSE Fail("InvalidScript")
      ELSE IF opcodenum \in {OP_PUSHDATA1, OP_PUSHDATA2, OP_PUSHDATA4}
      THEN
        IF i + 2 > Len(tokens) THEN Fail("TypeError")
        ELSE IF ~StartsWith0x(tokens, i + 2) THEN Fail("InvalidScript")
        ELSE
          LET p == PayloadOfToken(tokens, i + 2)
              len == parseInt(tokens[i + 1])
          IN
            IF p.err # "none" THEN Fail(p.err)
            ELSE ParseTokens(tokens, i + 3,
                   Append(chunks, PushChunk(opcodenum, p.buf, len)))
      ELSE ParseTokens(tokens, i + 1, Append(chunks, BareChunk(opcodenum)))

\* Script.fromString
fromString(str) ==
  IF isHexa(str)
  THEN LET b == HexStringBuffer(str) IN
         IF b.err # "none" THEN Fail(b.err) ELSE fromBuffer(b.buf)
  ELSE ParseTokens(Split(str), 1, <<>>)


(***************************************************************************)
(* Classifier.                                                              *)
(***************************************************************************)
\* Opcode.isSmallIntOp: OP_0 or OP_1..OP_16
isSmallIntOp(opcodenum) ==
  opcodenum = OP_0 \/ (opcodenum >= OP_1 /\ opcodenum <= OP_16)

\* PublicKey.isValid(buf): a 33-byte encoding with prefix 02 or 03, or a
\* 65-byte encoding with prefix 04 (membership of the curve is not modelled)
isValidPublicKey(buf) ==
  \/ BLen(buf) = 33 /\ At(buf, 0) \in {2, 3}
  \/ BLen(buf) = 65 /\ At(buf, 0) = 4

\* the value of a property an object does not have
Undefined == "undefined"

\* chunk[name] of a chunk object
ChunkProp(chunk, name) == IF name \in DOMAIN chunk THEN chunk[name] ELSE Undefined

\* this.chunks.len: an Array has no property len
ChunksLenProp == Undefined

isPublicKeyHashOut(chunks) ==
  /\ Len(chunks) = 5
  /\ chunks[1].opcodenum = OP_DUP
  /\ chunks[2].opcodenum = OP_HASH160
  /\ HasBuf(chunks[3])
  /\ chunks[4].opcodenum = OP_EQUALVERIFY
  /\ chunks[5].opcodenum = OP_CHECKSIG

isPublicKeyHashIn(chunks) ==
  /\ Len(chunks) = 2
  /\ HasBuf(chunks[1])
  /\ BLen(chunks[1].buf) >= 71
  /\ BLen(chunks[1].buf) <= 73
  /\ HasBuf(chunks[2])
  /\ isValidPublicKey(chunks[2].buf)

isPublicKeyOut(chunks) ==
  /\ Len(chunks) = 2
  /\ HasBuf(chunks[1])
  /\ isValidPublicKey(chunks[1].buf)
  /\ chunks[2].opcodenum = OP_CHECKSIG

isPublicKeyIn(chunks) ==
  /\ Len(chunks) = 1
  /\ HasBuf(chunks[1])
  /\ BLen(chunks[1].buf) = 71

isScriptHashOut(chunks) ==
  /\ Len(chunks) = 3
  /\ chunks[1].opcodenum = OP_HASH160
  /\ HasBuf(chunks[2])
  /\ BLen(chunks[2].buf) = 20
  /\ chunks[3].opcodenum = OP_EQUAL

isMultisigOut(chunks) ==
  /\ Len(chunks) > 3
  /\ isSmallIntOp(chunks[1].opcodenum)
  /\ \A i \in 2..(Len(chunks) - 2) : HasBuf(chunks[i])
  /\ isSmallIntOp(chunks[Len(chunks) - 1].opcodenum)
  /\ chunks[Len(chunks)].opcodenum = OP_CHECKMULTISIG

isMultisigIn(chunks) ==
  /\ Len(chunks) >= 2
  /\ chunks[1].opcodenum = 0
  /\ \A i \in 2..Len(chunks) : HasBuf(chunks[i]) /\ BLen(chunks[i].buf) = 71

\* mutant: the bound of the payload is exclusive (buf.length < 40)
isDataOut_Below40(chunks) ==
  /\ Len(chunks) >= 1
  /\ chunks[1].opcodenum = OP_RETURN
  /\ \/ Len(chunks) = 1
     \/ /\ Len(chunks) = 2
        /\ HasBuf(chunks[2])
        /\ BLen(chunks[2].buf) < 40
        /\ ChunkProp(chunks[2], "length") = ChunksLenProp

isDataOut(chunks) ==
  /\ Len(chunks) >= 1
  /\ chunks[1].opcodenum = OP_RETURN
  /\ \/ Len(chunks) = 1
     \/ /\ Len(chunks) = 2
        /\ HasBuf(chunks[2])
        /\ BLen(chunks[2].buf) <= 40
        /\ ChunkProp(chunks[2], "length") = ChunksLenProp

\* mutant: the identifiers in the order the methods are defined
Identifiers_DefinitionOrder ==
  << "PUBKEYHASH_OUT", "PUBKEYHASH_IN", "PUBKEY_OUT", "PUBKEY_IN",
     "SCRIPTHASH_OUT", "SCRIPTHASH_IN", "MULTISIG_OUT", "MULTISIG_IN",
     "DATA_OUT" >>

\* the keys of Script.identifiers, in the order for (var type in ...) visits
\* them: the order of their assignment
Identifiers ==
  << "PUBKEY_OUT", "PUBKEY_IN", "PUBKEYHASH_OUT", "PUBKEYHASH_IN",
     "MULTISIG_OUT", "MULTISIG_IN", "SCRIPTHASH_OUT", "SCRIPTHASH_IN",
     "DATA_OUT" >>

\* the outcome of a predicate that cannot raise
Truth(b) == IF b THEN "true" ELSE "false"

RECURSIVE classify(_)
RECURSIVE ClassifyFrom(_, _)

\* Script.prototype.isScriptHashIn: "true", "false", or "error" when
\* new Script(scriptBuf) or redeemScript.classify() raises
isScriptHashIn(chunks) ==
  IF Len(chunks) = 0 THEN "false"
  ELSE
    LET chunk == chunks[Len(chunks)] IN
      IF ~HasBuf(chunk) THEN "false"
      ELSE
        LET redeemScript == fromBuffer(chunk.buf) IN
          IF redeemScript.err # "none" THEN "error"
          ELSE
            LET type == classify(redeemScript.chunks) IN
              IF type = "Error" THEN "error" ELSE Truth(type # "UNKNOWN")

\* Script.identifiers[type].bind(this)()
Matches(type, chunks) ==
  CASE type = "PUBKEY_OUT" -> Truth(isPublicKeyOut(chunks))
    [] type = "PUBKEY_IN" -> Truth(isPublicKeyIn(chunks))
    [] type = "PUBKEYHASH_OUT" -> Truth(isPublicKeyHashOut(chunks))
    [] type = "PUBKEYHASH_IN" -> Truth(isPublicKeyHashIn(chunks))
    [] type = "MULTISIG_OUT" -> Truth(isMultisigOut(chunks))
    [] type = "MULTISIG_IN" -> Truth(isMultisigIn(chunks))
    [] type = "SCRIPTHASH_OUT" -> Truth(isScriptHashOut(chunks))
    [] type = "SCRIPTHASH_IN" -> isScriptHashIn(chunks)
    [] type = "DATA_OUT" -> Truth(isDataOut(chunks))

\* the loop of Script.prototype.classify from the i-th identifier on
ClassifyFrom(chunks, i) ==
  IF i > Len(Identifiers) THEN "UNKNOWN"
  ELSE
    LET m == Matches(Identifiers[i], chunks) IN
      IF m = "true" THEN Identifiers[i]
      ELSE IF m = "error" THEN "Error"
      ELSE ClassifyFrom(chunks, i + 1)

\* Script.prototype.classify: a type tag, or "Error" when it raises
classify(chunks) == ClassifyFrom(chunks, 1)

(***************************************************************************)
(* Builders.                                                                *)
(***************************************************************************)
\* Script.buildDataOut(data), data a Buffer
buildDataOut(data) ==
  addBuffer(addOpcode(<<>>, OP_RETURN, FALSE).chunks, data, FALSE)

(***************************************************************************)
(* SpecParse: the byte parser and the text parser applied to an input, and *)
(* the serializer applied to a script parsed from bytes.  A byte input is  *)
(* arg as a plain sequence of bytes (the parser is given the buffer        *)
(* holding them); a text input is arg as a sequence of tokens.             *)
(***************************************************************************)
\* byte values the enumerated inputs are made of: OP_0, two direct pushes,
\* the three OP_PUSHDATA opcodes, and a non-push opcode
ByteAlphabet == {0, 1, 2, OP_PUSHDATA1, OP_PUSHDATA2, OP_PUSHDATA4, OP_CHECKSIG}

\* longer inputs: OP_PUSHDATA4 and OP_PUSHDATA2 with a payload, a payload
\* shorter than declared, a declared length of 2^32 - 1
LongInputs ==
  { <<OP_PUSHDATA4, 2, 0, 0, 0, 7, 7, OP_CHECKSIG>>,
    <<OP_PUSHDATA4, 2, 0, 0, 0, 7>>,
    <<OP_PUSHDATA4, 255, 255, 255, 255, 7, 7>>,
    <<OP_PUSHDATA2, 3, 0, 7, 8, 9, OP_0>>,
    <<OP_PUSHDATA2, 0, 1, 7, 8, 9, 0>>,
    <<OP_PUSHDATA1, 3, 7, 8, 9, 3, 1, 2, 3>>,
    <<5, 1, 2, 3, 4, 5, OP_PUSHDATA1, 0>>,
    <<5, 1, 2, 3, 4>> }

ByteInputs == UNION { [1..n -> ByteAlphabet] : n \in 0..MaxBufLen } \cup LongInputs

\* tokens the enumerated inputs of the text parser are made of
TokenAlphabet ==
  { TName(OP_DUP), TName(OP_PUSHDATA1), TDec(Num(1)), TDec(Num(2)),
    THex(-1, Bytes(<<7>>)), THex(-1, Bytes(<<7, 8>>)) }

TextInputs ==
  UNION { [1..n -> TokenAlphabet] : n \in 0..MaxTokens }
    \cup { <<TRaw(Bytes(<<OP_CHECKSIG, 1, 7>>))>>, <<TDec(Num(1007))>> }

InitParse ==
  /\ script = <<>>
  /\ other = <<>>
  /\ ret = NoResult
  /\ \/ op = "bytes" /\ arg \in ByteInputs
     \/ op = "text" /\ arg \in TextInputs

\* script = Script.fromBuffer(arg)
ParseBytes ==
  /\ op = "bytes"
  /\ LET r == fromBuffer(Bytes(arg)) IN
       /\ script' = r.chunks
       /\ ret' = [call |-> "fromBuffer", err |-> r.err]
  /\ op' = "fromBuffer"
  /\ UNCHANGED <<other, arg>>

\* script = Script.fromString(arg)
ParseText ==
  /\ op = "text"
  /\ LET r == fromString(arg) IN
       /\ script' = r.chunks
       /\ ret' = [call |-> "fromString", err |-> r.err]
  /\ op' = "fromString"
  /\ UNCHANGED <<other, arg>>

\* script.toBuffer() of the script parsed from bytes
SerializeParsed ==
  /\ op = "fromBuffer"
  /\ ret = [call |-> "fromBuffer", err |-> "none"]
  /\ ret' = [call |-> "toBuffer", err |-> "none", bytes |-> toBuffer(script)]
  /\ UNCHANGED <<script, other, op, arg>>

NextParse == ParseBytes \/ ParseText \/ SerializeParsed

SpecParse == InitParse /\ [][NextParse]_vars

(***************************************************************************)
(* C1: for every byte sequence b on which Script.fromBuffer succeeds,      *)
(* Script.fromBuffer(b).toBuffer() is byte-for-byte equal to b.             *)
(***************************************************************************)
C1_RoundTrip ==
  (op = "fromBuffer" /\ ret.call = "toBuffer") => ret.bytes = Bytes(arg)

\* a parsed and reserialized script that holds an OP_0, a direct push and an
\* OP_PUSHDATA1 with declared length 0
C1_Witness ==
  /\ op = "fromBuffer"
  /\ ret.call = "toBuffer"
  /\ \E i, j, k \in 1..Len(script) :
       /\ script[i] = BareChunk(OP_0)
       /\ HasBuf(script[j]) /\ IsDirectPushOp(script[j].opcodenum)
       /\ HasBuf(script[k]) /\ script[k].opcodenum = OP_PUSHDATA1
       /\ script[k].len = Num(0)

(***************************************************************************)
(* C5: Script.fromBuffer fails with Truncated, and returns no script,      *)
(* whenever the byte stream ends before a chunk is complete.                *)
(***************************************************************************)
\* the little-endian value of the w bytes of s after position i, as a number
LEField(s, i, w) ==
  [hi |-> IF w = 4 THEN s[i + 3] + 256 * s[i + 4] ELSE 0,
   lo |-> IF w = 1 THEN s[i + 1] ELSE s[i + 1] + 256 * s[i + 2]]

RECURSIVE EndsMidChunk(_, _)
\* s (a plain byte sequence, 1-based) ends before the chunk starting at i, or
\* a later one, is complete
EndsMidChunk(s, i) ==
  IF i > Len(s) THEN FALSE
  ELSE
    LET o == s[i]
        w == CASE o = OP_PUSHDATA1 -> 1 [] o = OP_PUSHDATA2 -> 2
               [] o = OP_PUSHDATA4 -> 4 [] OTHER -> 0
    IN
      IF o >= 1 /\ o <= 75
      THEN i + o > Len(s) \/ EndsMidChunk(s, i + o + 1)
      ELSE IF w > 0
      THEN \/ i + w > Len(s)
           \/ LET l == LEField(s, i, w) IN
                \/ l.hi >= 32768
                \/ i + w + NumVal(l) > Len(s)
                \/ EndsMidChunk(s, i + w + NumVal(l) + 1)
      ELSE EndsMidChunk(s, i + 1)

C5_Truncated ==
  (op = "fromBuffer" /\ EndsMidChunk(arg, 1)) =>
     (ret = [call |-> "fromBuffer", err |-> "Truncated"] /\ script = <<>>)

\* the single byte 4c was parsed
C5_Witness == op = "fromBuffer" /\ arg = <<OP_PUSHDATA1>> /\ ret.err = "Truncated"

(***************************************************************************)
(* C6: every push chunk of every script returned by Script.fromBuffer or   *)
(* Script.fromString has a payload whose length equals its declared length *)
(* len, with len the opcode value for opcodes 0x01..0x4b, len < 2^8 for    *)
(* OP_PUSHDATA1, len < 2^16 for OP_PUSHDATA2 and len < 2^32 for            *)
(* OP_PUSHDATA4; chunks with any other opcode carry no payload.             *)
(***************************************************************************)
ChunkLengthsHold(chunk) ==
  HasBuf(chunk) =>
    /\ BufLength(chunk.buf) = chunk.len
    /\ \/ chunk.opcodenum \in 1..75 /\ chunk.len = Num(chunk.opcodenum)
       \/ chunk.opcodenum = OP_PUSHDATA1 /\ NumLt(chunk.len, Pow2_8)
       \/ chunk.opcodenum = OP_PUSHDATA2 /\ NumLt(chunk.len, Pow2_16)
       \/ chunk.opcodenum = OP_PUSHDATA4 /\ NumLt(chunk.len, Pow2_32)

C6_ParsedLengths ==
  (op \in {"fromBuffer", "fromString"} /\ ret.err = "none") =>
     \A i \in 1..Len(script) : ChunkLengthsHold(script[i])

(***************************************************************************)
(* Spec: a script built through the public API (Script.empty, a builder or *)
(* Script.fromBuffer, then add/prepend of opcodes and payloads) and the    *)
(* calls that read it: classify, isDataOut, and the text round trip        *)
(* Script.fromString(script.toString()).                                    *)
(***************************************************************************)
\* a 71-byte payload that is itself a multisig output script:
\* OP_1, a push of 67 bytes, OP_1, OP_CHECKMULTISIG
Redeem71 ==
  Cat(Bytes(<<OP_1, 67>>), Cat(Run(7, 67), Bytes(<<OP_1, OP_CHECKMULTISIG>>)))

\* a 33-byte public key encoding that is itself a script whose last chunk
\* pushes an OP_RETURN script
KeyScript33 == Cat(Run(2, 1), Cat(Run(0, 30), Bytes(<<1, OP_RETURN>>)))

\* a 33-byte public key encoding that does not parse as a script
Key33 == Cat(Run(3, 1), Run(7, 32))

\* an opcode byte with no canonical name
OP_UNNAMED == 186

OpItems == {OP_0, OP_RETURN, OP_CHECKSIG, OP_UNNAMED}

BufItems ==
  { EmptyBuf, Redeem71, KeyScript33, Key33, Run(7, 40), Run(7, 41),
    Run(OP_RETURN, 1) }

\* data given to buildDataOut: 0, 1, 40, 41, 76 and 256 bytes
DataItems ==
  { EmptyBuf, Run(OP_RETURN, 1), Run(7, 40), Run(7, 41), Run(7, 76), Run(7, 256) }

\* scripts given to Script.fromBuffer: P2PKH output, P2SH output, OP_RETURN
\* "Hello", a multisig output
ScriptItems ==
  { Cat(Bytes(<<OP_DUP, OP_HASH160, 20>>),
        Cat(Run(0, 20), Bytes(<<OP_EQUALVERIFY, OP_CHECKSIG>>))),
    Cat(Bytes(<<OP_HASH160, 20>>), Cat(Run(0, 20), Bytes(<<OP_EQUAL>>))),
    Bytes(<<OP_RETURN, 5, 72, 101, 108, 108, 111>>),
    Redeem71 }

Init ==
  /\ script = <<>>
  /\ other = <<>>
  /\ op = "empty"
  /\ arg = EmptyBuf
  /\ ret = NoResult

\* script = Script.buildDataOut(data)
BuildDataOut(data) ==
  /\ op = "empty"
  /\ LET r == buildDataOut(data) IN
       /\ script' = r.chunks
       /\ ret' = [call |-> "buildDataOut", err |-> r.err]
  /\ op' = "buildDataOut"
  /\ arg' = data
  /\ other' = other

\* script = Script.fromBuffer(buf)
FromBuffer(buf) ==
  /\ op = "empty"
  /\ LET r == fromBuffer(buf) IN
       /\ script' = r.chunks
       /\ ret' = [call |-> "fromBuffer", err |-> r.err]
  /\ op' = "fromBuffer"
  /\ arg' = buf
  /\ other' = other

\* script.add(opcode) and script.prepend(opcode)
AddOpcode(opcodenum, prepend) ==
  /\ Len(script) < MaxChunks
  /\ LET r == addOpcode(script, opcodenum, prepend) IN
       /\ script' = r.chunks
       /\ ret' = [call |-> IF prepend THEN "prepend" ELSE "add", err |-> r.err]
  /\ op' = IF prepend THEN "prepend" ELSE "add"
  /\ arg' = opcodenum
  /\ other' = other

\* script.add(buf) and script.prepend(buf)
AddBuffer(buf, prepend) ==
  /\ Len(script) < MaxChunks
  /\ LET r == addBuffer(script, buf, prepend) IN
       /\ script' = r.chunks
       /\ ret' = [call |-> IF prepend THEN "prepend" ELSE "add", err |-> r.err]
  /\ op' = IF prepend THEN "prepend" ELSE "add"
  /\ arg' = buf
  /\ other' = other

\* script.classify()
Classify ==
  /\ ret.call # "classify"
  /\ LET type == classify(script) IN
       ret' = [call |-> "classify",
               err |-> IF type = "Error" THEN "Truncated" ELSE "none",
               type |-> type]
  /\ UNCHANGED <<script, other, op, arg>>

\* script.isDataOut()
IsDataOut ==
  /\ ret.call # "isDataOut"
  /\ ret' = [call |-> "isDataOut", err |-> "none", val |-> isDataOut(script)]
  /\ UNCHANGED <<script, other, op, arg>>

\* Script.fromString(script.toString())
Reparse ==
  /\ ret.call # "fromString"
  /\ LET r == fromString(toString(script)) IN
       ret' = [call |-> "fromString", err |-> r.err, chunks |-> r.chunks]
  /\ UNCHANGED <<script, other, op, arg>>

Next ==
  \/ \E data \in DataItems : BuildDataOut(data)
  \/ \E buf \in ScriptItems : FromBuffer(buf)
  \/ \E o \in OpItems, prepend \in BOOLEAN : AddOpcode(o, prepend)
  \/ \E buf \in BufItems, prepend \in BOOLEAN : AddBuffer(buf, prepend)
  \/ Classify
  \/ IsDataOut
  \/ Reparse

Spec == Init /\ [][Next]_vars

(***************************************************************************)
(* C3 (as amended): classify() tries the rules in the order PUBKEY_OUT,    *)
(* PUBKEY_IN, PUBKEYHASH_OUT, PUBKEYHASH_IN, MULTISIG_OUT, MULTISIG_IN,    *)
(* SCRIPTHASH_OUT, SCRIPTHASH_IN, DATA_OUT; its outcome is that of the     *)
(* first rule that does not evaluate to false: that rule's tag, or the     *)
(* failure when evaluating SCRIPTHASH_IN fails on the last chunk's payload;*)
(* UNKNOWN when every rule is false.  A script that satisfies MULTISIG_IN  *)
(* and SCRIPTHASH_IN is MULTISIG_IN.                                        *)
(***************************************************************************)
C3_Order ==
  << "PUBKEY_OUT", "PUBKEY_IN", "PUBKEYHASH_OUT", "PUBKEYHASH_IN",
     "MULTISIG_OUT", "MULTISIG_IN", "SCRIPTHASH_OUT", "SCRIPTHASH_IN",
     "DATA_OUT" >>

\* the rules of order that do not evaluate to false on chunks
Hits(order, chunks) ==
  { i \in 1..Len(order) : Matches(order[i], chunks) # "false" }

\* the outcome of the first rule of order that does not evaluate to false
FirstOutcome(order, chunks) ==
  IF Hits(order, chunks) = {} THEN "UNKNOWN"
  ELSE
    LET i == CHOOSE i \in Hits(order, chunks) :
               \A j \in Hits(order, chunks) : i <= j
    IN IF Matches(order[i], chunks) = "true" THEN order[i] ELSE "Error"

C3_FirstMatchInMapOrder ==
  ret.call = "classify" => ret.type = FirstOutcome(C3_Order, script)

\* a script that satisfies both MULTISIG_IN and SCRIPTHASH_IN was classified
C3_Witness ==
  /\ ret.call = "classify"
  /\ Matches("MULTISIG_IN", script) = "true"
  /\ Matches("SCRIPTHASH_IN", script) = "true"
  /\ ret.type = "MULTISIG_IN"

(***************************************************************************)
(* C3 (as claimed): for every script, classify() returns the tag of the    *)
(* first rule that matches when the rules are tried in the order           *)
(* PUBKEYHASH_OUT, PUBKEYHASH_IN, PUBKEY_OUT, PUBKEY_IN, SCRIPTHASH_OUT,   *)
(* SCRIPTHASH_IN, MULTISIG_OUT, MULTISIG_IN, DATA_OUT, and UNKNOWN when no *)
(* rule matches.  Stated of the calls that return a tag.                    *)
(***************************************************************************)
C3_ClaimedOrder ==
  << "PUBKEYHASH_OUT", "PUBKEYHASH_IN", "PUBKEY_OUT", "PUBKEY_IN",
     "SCRIPTHASH_OUT", "SCRIPTHASH_IN", "MULTISIG_OUT", "MULTISIG_IN",
     "DATA_OUT" >>

\* the first rule of order that matches chunks, UNKNOWN when none does
FirstTrue(order, chunks) ==
  LET T == { i \in 1..Len(order) : Matches(order[i], chunks) = "true" } IN
    IF T = {} THEN "UNKNOWN"
    ELSE order[CHOOSE i \in T : \A j \in T : i <= j]

C3_FirstMatchInClaimedOrder ==
  (ret.call = "classify" /\ ret.type # "Error") =>
     ret.type = FirstTrue(C3_ClaimedOrder, script)

(***************************************************************************)
(* C7: for every script s built through the public API,                    *)
(* Script.fromString(s.toString()) succeeds and yields a script chunk-wise *)
(* equal to s.                                                              *)
(***************************************************************************)
C7_TextRoundTrip ==
  ret.call = "fromString" => (ret.err = "none" /\ ret.chunks = script)

(***************************************************************************)
(* C10: Script.buildDataOut(data).isDataOut() is true if and only if the   *)
(* length of data is at most 40; isDataOut is true exactly when chunk 0 is *)
(* OP_RETURN and the script has either one chunk or exactly two chunks     *)
(* whose second is a push of at most 40 bytes.                              *)
(***************************************************************************)
DataOutShape(chunks) ==
  /\ chunks # <<>>
  /\ chunks[1].opcodenum = OP_RETURN
  /\ \/ Len(chunks) = 1
     \/ /\ Len(chunks) = 2
        /\ HasBuf(chunks[2])
        /\ NumLt(BufLength(chunks[2].buf), Num(41))

C10_DataOut ==
  ret.call = "isDataOut" =>
    /\ ret.val <=> DataOutShape(script)
    /\ op = "buildDataOut" => (ret.val <=> NumLt(BufLength(arg), Num(41)))

\* isDataOut was called on buildDataOut of a 40-byte payload
C10_Witness ==
  /\ op = "buildDataOut"
  /\ ret.call = "isDataOut"
  /\ BufLength(arg) = Num(40)
  /\ ret.val

(***************************************************************************)
(* SpecEquals: Script.prototype.equals on pairs of scripts built by add.   *)
(***************************************************************************)
\* BufferUtil.isBuffer(chunk): a chunk is an object {opcodenum} or
\* {buf, len, opcodenum}, never a Buffer
isBuffer(chunk) == FALSE

\* chunk instanceof Opcode: a chunk is a plain object
isOpcodeInstance(chunk) == FALSE

\* one pass of the loop of Script.prototype.equals: TRUE when the pass
\* returns false
PairDiffers(chunk, otherChunk) ==
  IF isBuffer(chunk) /\ ~isBuffer(otherChunk) THEN TRUE
  ELSE IF isOpcodeInstance(chunk) /\ ~isOpcodeInstance(otherChunk) THEN TRUE
  ELSE IF isBuffer(chunk) /\ chunk # otherChunk THEN TRUE
  ELSE ChunkProp(chunk, "num") # ChunkProp(otherChunk, "num")

\* Script.prototype.equals
equals(chunks, otherChunks) ==
  IF Len(chunks) # Len(otherChunks) THEN FALSE
  ELSE \A i \in 1..Len(chunks) : ~PairDiffers(chunks[i], otherChunks[i])

\* the things added to build the scripts that are compared
EqOpcodes == {OP_DUP, OP_HASH160}

EqBuffers == {Run(1, 1), Run(2, 1), Run(1, 2)}

RECURSIVE BuiltScripts(_)
\* the scripts that n calls of add build from the empty script
BuiltScripts(n) ==
  IF n = 0 THEN {<<>>}
  ELSE
    LET S == BuiltScripts(n - 1) IN
      S \cup { addOpcode(c, o, FALSE).chunks : c \in S, o \in EqOpcodes }
        \cup { addBuffer(c, b, FALSE).chunks : c \in S, b \in EqBuffers }

InitEquals ==
  /\ script \in BuiltScripts(MaxEqChunks)
  /\ other \in BuiltScripts(MaxEqChunks)
  /\ op = "pair"
  /\ arg = EmptyBuf
  /\ ret = NoResult

\* script.equals(other)
Equals ==
  /\ op = "pair"
  /\ ret' = [call |-> "equals", err |-> "none", val |-> equals(script, other)]
  /\ op' = "equals"
  /\ UNCHANGED <<script, other, arg>>

NextEquals == Equals

SpecEquals == InitEquals /\ [][NextEquals]_vars

(***************************************************************************)
(* C2: for any two scripts s and t, s.equals(t) is true if and only if     *)
(* s.toBuffer() and t.toBuffer() are the same byte sequence; two scripts   *)
(* with the same number of chunks but a differing opcode or payload are    *)
(* not equal.                                                               *)
(***************************************************************************)
C2_EqualsIffSameBytes ==
  ret.call = "equals" => (ret.val <=> toBuffer(script) = toBuffer(other))

(***************************************************************************)
(* Builders that take addresses and public keys.  An Address is a record   *)
(* of its kind, its version byte and its hashBuffer; a PublicKey is        *)
(* modelled by its serialization.                                           *)
(***************************************************************************)
\* Opcode.smallInt(n), for n in 0..16
smallInt(n) == IF n = 0 THEN OP_0 ELSE OP_1 + n - 1

\* the sum of the bytes of buf, modulo 256
RECURSIVE ByteSum(_)
ByteSum(buf) ==
  IF buf = <<>> THEN 0
  ELSE (buf[1].b * (buf[1].n % 256) + ByteSum(Tail(buf))) % 256

\* Hash.sha256ripemd160(buf): a 20-byte digest, here a function of the
\* length and of the sum of the bytes of buf
sha256ripemd160(buf) ==
  LET d == (ByteSum(buf) + 31 * (BLen(buf) % 256) + 1) % 256 IN
    Cat(Run(d, 19), Run((d + 128) % 256, 1))

Address(type, version, hashBuffer) ==
  [kind |-> "address", type |-> type, version |-> version,
   hashBuffer |-> hashBuffer]

\* a Script object with the given chunks
ScriptObj(chunks) == [kind |-> "script", chunks |-> chunks]

\* Address.prototype.isPayToScriptHash
isPayToScriptHash(address) == address.type = "scripthash"

\* Address.prototype.isPayToPublicKeyHash
isPayToPublicKeyHash(address) == address.type = "pubkeyhash"

\* obj.toBuffer() of a Script or of an Address (version byte, then hash)
ObjToBuffer(obj) ==
  IF obj.kind = "address" THEN Cat(Run(obj.version, 1), obj.hashBuffer)
  ELSE toBuffer(obj.chunks)

\* Script.buildScriptHashOut
buildScriptHashOut(obj) ==
  LET s1 == addOpcode(<<>>, OP_HASH160, FALSE).chunks
      r2 == addBuffer(s1, sha256ripemd160(ObjToBuffer(obj)), FALSE)
  IN IF r2.err # "none" THEN r2
     ELSE addOpcode(r2.chunks, OP_EQUAL, FALSE)

\* Script.buildPublicKeyHashOut, given an Address
buildPublicKeyHashOut(to) ==
  LET s1 == addOpcode(<<>>, OP_DUP, FALSE).chunks
      s2 == addOpcode(s1, OP_HASH160, FALSE).chunks
      r3 == addBuffer(s2, to.hashBuffer, FALSE)
  IN IF r3.err # "none" THEN r3
     ELSE addOpcode(addOpcode(r3.chunks, OP_EQUALVERIFY, FALSE).chunks,
                    OP_CHECKSIG, FALSE)

\* Script.fromAddress
fromAddress(address) ==
  IF isPayToScriptHash(address) THEN buildScriptHashOut(address)
  ELSE IF isPayToPublicKeyHash(address) THEN buildPublicKeyHashOut(address)
  ELSE Fail("UnrecognizedAddress")

\* the character code of the lower-case hexadecimal digit of d
HexChar(d) == IF d < 10 THEN 48 + d ELSE 87 + d

RECURSIVE toHex(_)
\* pubkey.toString('hex'): two hexadecimal digits per byte, as character
\* codes
toHex(buf) ==
  IF buf = <<>> THEN <<>>
  ELSE [ i \in 1..(2 * buf[1].n) |->
           IF i % 2 = 1 THEN HexChar(buf[1].b \div 16)
           ELSE HexChar(buf[1].b % 16) ]
       \o toHex(Tail(buf))

RECURSIVE StrLess(_, _)
\* a < b of two strings
StrLess(a, b) ==
  IF b = <<>> THEN FALSE
  ELSE IF a = <<>> THEN TRUE
  ELSE IF a[1] # b[1] THEN a[1] < b[1]
  ELSE StrLess(Tail(a), Tail(b))

RECURSIVE InsertByHex(_, _)
\* sorted with pubkey put after every element that is not greater
InsertByHex(sorted, pubkey) ==
  IF sorted = <<>> THEN <<pubkey>>
  ELSE IF StrLess(toHex(pubkey), toHex(sorted[1]))
       THEN <<pubkey>> \o sorted
  ELSE <<sorted[1]>> \o InsertByHex(Tail(sorted), pubkey)

RECURSIVE sortByHex(_)
\* _.sortBy(pubkeys, pubkey => pubkey.toString('hex')): stable, ascending
sortByHex(pubkeys) ==
  IF pubkeys = <<>> THEN <<>>
  ELSE InsertByHex(sortByHex(SubSeq(pubkeys, 1, Len(pubkeys) - 1)),
                   pubkeys[Len(pubkeys)])

RECURSIVE AddAll(_, _)
\* the loop of s.add(pubkey.toBuffer()) over sorted
AddAll(chunks, sorted) ==
  IF sorted = <<>> THEN chunks
  ELSE AddAll(addBuffer(chunks, sorted[1], FALSE).chunks, Tail(sorted))

\* mutant: the keys are added in the order given
buildMultisigOut_AsGiven(pubkeys, m, noSorting) ==
  LET s1 == addOpcode(<<>>, smallInt(m), FALSE).chunks
      s2 == AddAll(s1, pubkeys)
      s3 == addOpcode(s2, smallInt(Len(pubkeys)), FALSE).chunks
  IN addOpcode(s3, OP_CHECKMULTISIG, FALSE)

\* Script.buildMultisigOut
buildMultisigOut(pubkeys, m, noSorting) ==
  LET sorted == IF ~noSorting THEN sortByHex(pubkeys) ELSE pubkeys
      s1 == addOpcode(<<>>, smallInt(m), FALSE).chunks
      s2 == AddAll(s1, sorted)
      s3 == addOpcode(s2, smallInt(Len(pubkeys)), FALSE).chunks
  IN addOpcode(s3, OP_CHECKMULTISIG, FALSE)

(***************************************************************************)
(* SpecBuild: up to two calls of the builders Script.fromAddress and       *)
(* Script.buildMultisigOut; other records the call made before the last.   *)
(***************************************************************************)
\* 20-byte hashes carried by the addresses
HashItems == {Run(0, 20), Cat(Run(171, 1), Run(205, 19))}

\* P2PKH, P2SH and unrecognised addresses, livenet and testnet versions
AddressItems ==
  { Address(t[1], t[2], h) :
      t \in { <<"pubkeyhash", 0>>, <<"pubkeyhash", 111>>,
              <<"scripthash", 5>>, <<"scripthash", 196>>,
              <<"other", 48>> },
      h \in HashItems }

\* serialized public keys: three compressed keys that differ in the last
\* byte or in the prefix, and an uncompressed key
KeyItems ==
  { Cat(Run(2, 1), Run(0, 32)),
    Cat(Run(2, 1), Cat(Run(0, 31), Run(10, 1))),
    Cat(Run(3, 1), Cat(Run(0, 31), Run(9, 1))),
    Cat(Run(4, 1), Run(7, 64)) }

\* the elements of a sequence
Range(seq) == { seq[i] : i \in 1..Len(seq) }

\* the lists of 1..MaxKeys distinct keys
KeyLists ==
  { p \in UNION { [1..k -> KeyItems] : k \in 1..MaxKeys } :
      Cardinality(Range(p)) = Len(p) }

InitBuild ==
  /\ script = <<>>
  /\ other = [op |-> "none"]
  /\ op = "none"
  /\ arg = EmptyBuf
  /\ ret = NoResult

\* script = Script.fromAddress(address)
FromAddress(address) ==
  /\ other.op = "none"
  /\ LET r == fromAddress(address) IN
       /\ script' = r.chunks
       /\ ret' = [call |-> "fromAddress", err |-> r.err]
  /\ op' = "fromAddress"
  /\ arg' = address
  /\ other' = [op |-> op, arg |-> arg, script |-> script]

\* script = Script.buildMultisigOut(pubkeys, m, {noSorting: noSorting})
BuildMultisigOut(pubkeys, m, noSorting) ==
  /\ other.op = "none"
  /\ LET r == buildMultisigOut(pubkeys, m, noSorting) IN
       /\ script' = r.chunks
       /\ ret' = [call |-> "buildMultisigOut", err |-> r.err]
  /\ op' = "buildMultisigOut"
  /\ arg' = [pubkeys |-> pubkeys, m |-> m, noSorting |-> noSorting]
  /\ other' = [op |-> op, arg |-> arg, script |-> script]

NextBuild ==
  \/ \E address \in AddressItems : FromAddress(address)
  \/ \E pubkeys \in KeyLists, m \in 1..2, noSorting \in BOOLEAN :
       BuildMultisigOut(pubkeys, m, noSorting)

SpecBuild == InitBuild /\ [][NextBuild]_vars

(***************************************************************************)
(* C8: Script.fromAddress(a) returns a script whose single pushed payload  *)
(* is exactly a.hashBuffer: OP_HASH160, push(a.hashBuffer), OP_EQUAL when  *)
(* a is a P2SH address; OP_DUP, OP_HASH160, push(a.hashBuffer),            *)
(* OP_EQUALVERIFY, OP_CHECKSIG when a is a P2PKH address; for an address   *)
(* of neither kind it fails with UnrecognizedAddress.                       *)
(***************************************************************************)
PushOfHash(a) == [opcodenum |-> 20, buf |-> a.hashBuffer, len |-> Num(20)]

C8_FromAddress ==
  ret.call = "fromAddress" =>
    IF arg.type = "scripthash" THEN
      /\ ret.err = "none"
      /\ script = << [opcodenum |-> OP_HASH160], PushOfHash(arg),
                     [opcodenum |-> OP_EQUAL] >>
    ELSE IF arg.type = "pubkeyhash" THEN
      /\ ret.err = "none"
      /\ script = << [opcodenum |-> OP_DUP], [opcodenum |-> OP_HASH160],
                     PushOfHash(arg), [opcodenum |-> OP_EQUALVERIFY],
                     [opcodenum |-> OP_CHECKSIG] >>
    ELSE ret.err = "UnrecognizedAddress"

(***************************************************************************)
(* C9: for any set of public keys, any threshold M and any two orderings   *)
(* p1, p2 of that key set, buildMultisigOut(p1, M) and                      *)
(* buildMultisigOut(p2, M) called without noSorting serialize to identical *)
(* bytes: small-int(M), the keys pushed in ascending order of their hex    *)
(* serialization, small-int(N) with N the number of keys,                  *)
(* OP_CHECKMULTISIG.                                                        *)
(***************************************************************************)
\* the last two calls were buildMultisigOut without noSorting, of the same
\* threshold and of orderings of one key set
SameKeySetTwice ==
  /\ op = "buildMultisigOut"
  /\ other.op = "buildMultisigOut"
  /\ ~arg.noSorting
  /\ ~other.arg.noSorting
  /\ arg.m = other.arg.m
  /\ Range(arg.pubkeys) = Range(other.arg.pubkeys)

C9_MultisigSorted ==
  /\ (op = "buildMultisigOut" /\ ~arg.noSorting) =>
       LET N == Len(arg.pubkeys) IN
         /\ Len(script) = N + 3
         /\ script[1] = [opcodenum |-> 80 + arg.m]
         /\ \A i \in 1..N :
              /\ HasBuf(script[i + 1])
              /\ script[i + 1].opcodenum = BLen(script[i + 1].buf)
         /\ { script[i + 1].buf : i \in 1..N } = Range(arg.pubkeys)
         /\ \A i \in 1..(N - 1) :
              StrLess(toHex(script[i + 1].buf), toHex(script[i + 2].buf))
         /\ script[N + 2] = [opcodenum |-> 80 + N]
         /\ script[N + 3] = [opcodenum |-> OP_CHECKMULTISIG]
  /\ SameKeySetTwice => toBuffer(script) = toBuffer(other.script)

\* two different orderings of three keys, the later one not ascending
C9_Witness ==
  /\ SameKeySetTwice
  /\ Len(arg.pubkeys) = 3
  /\ arg.pubkeys # other.arg.pubkeys
  /\ StrLess(toHex(arg.pubkeys[2]), toHex(arg.pubkeys[1]))
  /\ toBuffer(script) = toBuffer(other.script)

(***************************************************************************)
(* SpecShare: two Script objects s and t.  A chunks array has an identity: *)
(* here script is the sequence of the (at most two) live arrays and other  *)
(* gives, for s and for t, the index of the array its chunks property      *)
(* refers to (0 while t is not created).  arg records the receiver of the  *)
(* last call and the arrays and references before it.                       *)
(***************************************************************************)
RECURSIVE removeCodeseparators_First(_)
\* mutant: only the first OP_CODESEPARATOR chunk is left out
removeCodeseparators_First(chunks) ==
  IF chunks = <<>> THEN <<>>
  ELSE IF chunks[1].opcodenum # OP_CODESEPARATOR
       THEN <<chunks[1]>> \o removeCodeseparators_First(Tail(chunks))
  ELSE Tail(chunks)

RECURSIVE removeCodeseparators(_)
\* Script.prototype.removeCodeseparators: the array assigned to this.chunks
removeCodeseparators(chunks) ==
  IF chunks = <<>> THEN <<>>
  ELSE IF chunks[1].opcodenum # OP_CODESEPARATOR
       THEN <<chunks[1]>> \o removeCodeseparators(Tail(chunks))
  ELSE removeCodeseparators(Tail(chunks))

\* the opcodes and the buffers given to add and prepend: the payload of the
\* push is the byte of OP_CODESEPARATOR
ShareOpcodes == {OP_DUP, OP_CODESEPARATOR}

ShareBuffers == {Run(OP_CODESEPARATOR, 1)}

\* the ways t is created from s
ShareWays == {"bytes", "text", "script", "chunks"}

\* the array a new array is stored in: the one of the receiver when no other
\* script refers to it, the free one otherwise
FreshArray(who) == IF other.s = other.t THEN 3 - other[who] ELSE other[who]

\* the record of a call of who
CallOf(who) == [who |-> who, before |-> script, refs |-> other]

InitShare ==
  /\ script = << <<>>, <<>> >>
  /\ other = [s |-> 1, t |-> 0]
  /\ op = "new"
  /\ arg = EmptyBuf
  /\ ret = NoResult

\* who.add(opcodenum) and who.prepend(opcodenum): the array is changed in
\* place (push, unshift)
AddOpcodeTo(who, opcodenum, prepend) ==
  /\ other[who] # 0
  /\ Len(script[other[who]]) < MaxShareChunks
  /\ LET r == addOpcode(script[other[who]], opcodenum, prepend) IN
       /\ script' = [script EXCEPT ![other[who]] = r.chunks]
       /\ ret' = [call |-> IF prepend THEN "prepend" ELSE "add", err |-> r.err]
  /\ op' = IF prepend THEN "prepend" ELSE "add"
  /\ arg' = CallOf(who)
  /\ other' = other

\* who.add(buf) and who.prepend(buf)
AddBufferTo(who, buf, prepend) ==
  /\ other[who] # 0
  /\ Len(script[other[who]]) < MaxShareChunks
  /\ LET r == addBuffer(script[other[who]], buf, prepend) IN
       /\ script' = [script EXCEPT ![other[who]] = r.chunks]
       /\ ret' = [call |-> IF prepend THEN "prepend" ELSE "add", err |-> r.err]
  /\ op' = IF prepend THEN "prepend" ELSE "add"
  /\ arg' = CallOf(who)
  /\ other' = other

\* who.removeCodeseparators(): this.chunks is assigned a new array
RemoveCodeseparatorsOf(who) ==
  /\ other[who] # 0
  /\ script' = [script EXCEPT
                  ![FreshArray(who)] = removeCodeseparators(script[other[who]])]
  /\ other' = [other EXCEPT ![who] = FreshArray(who)]
  /\ op' = "removeCodeseparators"
  /\ arg' = CallOf(who)
  /\ ret' = [call |-> "removeCodeseparators", err |-> "none"]

\* t = new Script(from), from being s.toBuffer(), s.toString(), s, or the
\* object {chunks: s.chunks}, which Script.prototype.set takes the array of
NewScriptFrom(way) ==
  /\ other.t = 0
  /\ LET chunks == script[other.s]
         r == IF way = "text" THEN fromString(toString(chunks))
              ELSE IF way \in {"bytes", "script"} THEN fromBuffer(toBuffer(chunks))
              ELSE Ok(chunks)
     IN
       /\ ret' = [call |-> "new Script", err |-> r.err]
       /\ IF r.err # "none" THEN UNCHANGED <<script, other>>
          ELSE IF way = "chunks" THEN
            /\ other' = [other EXCEPT !.t = other.s]
            /\ script' = script
          ELSE
            /\ other' = [other EXCEPT !.t = 2]
            /\ script' = [script EXCEPT ![2] = r.chunks]
  /\ op' = "new Script"
  /\ arg' = [who |-> "t", before |-> script, refs |-> other, way |-> way]

NextShare ==
  \/ \E who \in {"s", "t"}, o \in ShareOpcodes, prepend \in BOOLEAN :
       AddOpcodeTo(who, o, prepend)
  \/ \E who \in {"s", "t"}, buf \in ShareBuffers, prepend \in BOOLEAN :
       AddBufferTo(who, buf, prepend)
  \/ \E who \in {"s", "t"} : RemoveCodeseparatorsOf(who)
  \/ \E way \in ShareWays : NewScriptFrom(way)

SpecShare == InitShare /\ [][NextShare]_vars

(***************************************************************************)
(* C11: after removeCodeseparators() on any script, the chunk sequence is  *)
(* exactly the original sequence with every chunk whose opcode is          *)
(* OP_CODESEPARATOR deleted: no other chunk is removed or altered, the     *)
(* order of the remaining chunks is unchanged, and applying the operation  *)
(* a second time changes nothing.                                           *)
(***************************************************************************)
NotCodeseparator(chunk) == chunk.opcodenum # OP_CODESEPARATOR

C11_RemoveCodeseparators ==
  op = "removeCodeseparators" =>
    LET before == arg.before[arg.refs[arg.who]]
        after == script[other[arg.who]]
    IN /\ after = SelectSeq(before, NotCodeseparator)
       /\ removeCodeseparators(after) = after

\* two OP_CODESEPARATOR chunks were removed around a push of the byte 0xab
C11_Witness ==
  /\ op = "removeCodeseparators"
  /\ Len(arg.before[arg.refs[arg.who]]) = 3
  /\ arg.before[arg.refs[arg.who]][1].opcodenum = OP_CODESEPARATOR
  /\ arg.before[arg.refs[arg.who]][3].opcodenum = OP_CODESEPARATOR
  /\ script[other[arg.who]] = << PushChunk(1, Run(OP_CODESEPARATOR, 1), Num(1)) >>

(***************************************************************************)
(* SpecPkh: isPublicKeyHashOut and getPublicKeyHash on scripts of the      *)
(* pay-to-public-key-hash shape and on variations of it.                    *)
(***************************************************************************)
\* Script.prototype.getPublicKeyHash: $.checkState, then chunks[2].buf
getPublicKeyHash(chunks) ==
  IF ~isPublicKeyHashOut(chunks)
  THEN [err |-> "PreconditionFailed", val |-> EmptyBuf]
  ELSE [err |-> "none", val |-> chunks[3].buf]

\* the payloads of the third chunk: 0 (no chunk is added), 1, 19, 20, 21
\* and 76 bytes
PkhPayloads ==
  { EmptyBuf, Run(7, 1), Run(7, 19), Run(7, 20), Run(7, 21), Run(7, 76) }

\* new Script().add(o1).add(o2).add(third).add(o4).add(o5), third being a
\* buffer
PkhScript(o1, o2, buf, o4, o5) ==
  LET s2 == addOpcode(addOpcode(<<>>, o1, FALSE).chunks, o2, FALSE).chunks
      s3 == addBuffer(s2, buf, FALSE).chunks
  IN addOpcode(addOpcode(s3, o4, FALSE).chunks, o5, FALSE).chunks

PkhScripts ==
  { PkhScript(o1, o2, buf, o4, o5) :
      o1 \in {OP_DUP, OP_HASH160}, o2 \in {OP_HASH160, OP_DUP},
      buf \in PkhPayloads,
      o4 \in {OP_EQUALVERIFY, OP_EQUAL}, o5 \in {OP_CHECKSIG, OP_CHECKMULTISIG} }
  \cup
  { insertAtPosition(PkhScript(OP_DUP, OP_HASH160, Run(7, 20), OP_EQUALVERIFY,
                               OP_CHECKSIG), BareChunk(o), prepend) :
      o \in {OP_0, OP_CHECKSIG}, prepend \in BOOLEAN }
  \cup
  { << BareChunk(OP_DUP), BareChunk(OP_HASH160), BareChunk(OP_0),
       BareChunk(OP_EQUALVERIFY), BareChunk(OP_CHECKSIG) >> }

InitPkh ==
  /\ script \in PkhScripts
  /\ other = <<>>
  /\ op = "built"
  /\ arg = EmptyBuf
  /\ ret = NoResult

\* script.isPublicKeyHashOut()
IsPublicKeyHashOut ==
  /\ ret.call # "isPublicKeyHashOut"
  /\ ret' = [call |-> "isPublicKeyHashOut", err |-> "none",
             val |-> isPublicKeyHashOut(script)]
  /\ UNCHANGED <<script, other, op, arg>>

\* script.getPublicKeyHash()
GetPublicKeyHash ==
  /\ ret.call # "getPublicKeyHash"
  /\ LET r == getPublicKeyHash(script) IN
       ret' = [call |-> "getPublicKeyHash", err |-> r.err, val |-> r.val]
  /\ UNCHANGED <<script, other, op, arg>>

NextPkh == IsPublicKeyHashOut \/ GetPublicKeyHash

SpecPkh == InitPkh /\ [][NextPkh]_vars

(***************************************************************************)
(* C12: a script is recognised as PUBKEYHASH_OUT (isPublicKeyHashOut true, *)
(* and getPublicKeyHash returns instead of failing with                    *)
(* PreconditionFailed) exactly when it has 5 chunks OP_DUP, OP_HASH160, a  *)
(* push of exactly 20 bytes, OP_EQUALVERIFY, OP_CHECKSIG; consequently     *)
(* getPublicKeyHash, whenever it succeeds, returns a 20-byte value.         *)
(***************************************************************************)
PkhOutShape(chunks) ==
  /\ Len(chunks) = 5
  /\ chunks[1].opcodenum = OP_DUP
  /\ chunks[2].opcodenum = OP_HASH160
  /\ HasBuf(chunks[3])
  /\ BufLength(chunks[3].buf) = Num(20)
  /\ chunks[4].opcodenum = OP_EQUALVERIFY
  /\ chunks[5].opcodenum = OP_CHECKSIG

C12_PublicKeyHashOut ==
  /\ ret.call = "isPublicKeyHashOut" => (ret.val <=> PkhOutShape(script))
  /\ ret.call = "getPublicKeyHash" =>
       /\ (ret.err = "none") <=> PkhOutShape(script)
       /\ ret.err = "none" => BufLength(ret.val) = Num(20)
       /\ ret.err # "none" => ret.err = "PreconditionFailed"

(***************************************************************************)
(* C13: a mutator call (add, prepend, removeCodeseparators) on one script  *)
(* never changes the chunk sequence of any other script: for two distinct  *)
(* Script objects, however the second was created (from bytes, text,       *)
(* another Script, or a chunk list taken from the first), a mutation of    *)
(* one leaves the other's chunk sequence and serialized bytes unchanged.   *)
(***************************************************************************)
\* the script that is not the receiver of the last call
NotReceiver == IF arg.who = "s" THEN "t" ELSE "s"

C13_OnlyReceiverChanges ==
  (op \in {"add", "prepend", "removeCodeseparators"} /\ other.t # 0) =>
     /\ script[other[NotReceiver]] = arg.before[arg.refs[NotReceiver]]
     /\ toBuffer(script[other[NotReceiver]])
          = toBuffer(arg.before[arg.refs[NotReceiver]])

(***************************************************************************)
(* SpecClassify: classify() of the scripts Script.fromBuffer parses from   *)
(* short byte sequences, among them pushes whose payload is not a script.  *)
(***************************************************************************)
\* byte values of the inputs: OP_0, two direct pushes, OP_PUSHDATA1 and
\* OP_RETURN
ClassifyAlphabet == {OP_0, 1, 2, OP_PUSHDATA1, OP_RETURN}

ClassifyInputs ==
  { Bytes(b) : b \in UNION { [1..n -> ClassifyAlphabet] : n \in 0..MaxClassifyLen } }

NextClassify ==
  \/ \E buf \in ClassifyInputs : FromBuffer(buf)
  \/ Classify

SpecClassify == Init /\ [][NextClassify]_vars

(***************************************************************************)
(* C14: for every script produced by a successful Script.fromBuffer,       *)
(* classify() returns one of the ten type tags without raising an error,   *)
(* including when the last chunk is a push whose payload is not itself a   *)
(* well-formed script, in which case the SCRIPTHASH_IN rule counts as not  *)
(* matched; the nested classification of the last chunk's payload recurses *)
(* only on strictly shorter byte sequences.                                 *)
(***************************************************************************)
TypeTags ==
  { "PUBKEY_OUT", "PUBKEY_IN", "PUBKEYHASH_OUT", "PUBKEYHASH_IN",
    "SCRIPTHASH_OUT", "SCRIPTHASH_IN", "MULTISIG_OUT", "MULTISIG_IN",
    "DATA_OUT", "UNKNOWN" }

\* the last chunk of chunks is a push whose payload does not parse
LastPayloadMalformed(chunks) ==
  /\ chunks # <<>>
  /\ HasBuf(chunks[Len(chunks)])
  /\ fromBuffer(chunks[Len(chunks)].buf).err # "none"

C14_ClassifyTotal ==
  (op = "fromBuffer" /\ fromBuffer(arg).err = "none" /\ ret.call = "classify") =>
     /\ ret.err = "none"
     /\ ret.type \in TypeTags
     /\ LastPayloadMalformed(script) => ret.type # "SCRIPTHASH_IN"
     /\ (script # <<>> /\ HasBuf(script[Len(script)])) =>
          BLen(script[Len(script)].buf) < BLen(arg)

(***************************************************************************)
(* SpecInput: a transaction Input (lib/transaction/input/input.js) and the *)
(* Script object its user holds.  Here script is the chunks of that Script *)
(* object and other is the Input: _scriptBuffer, and _script, which is     *)
(* "null" or "script" when it refers to the Script object of the user.     *)
(***************************************************************************)
\* the opcodes and the buffers the user adds to the Script object
InputOpcodes == {OP_0, OP_CODESEPARATOR}

InputPayloads == {Run(7, 1)}

\* the buffers given to setScript and read by Input.fromBufferReader: no
\* script, OP_0, a push of one byte, a push that ends after its opcode
InputBuffers == { EmptyBuf, Bytes(<<OP_0>>), Bytes(<<1, 7>>), Bytes(<<OP_PUSHDATA1>>) }

\* Input.fromBufferReader: _scriptBuffer is read, _script is not set; the
\* user holds a new Script()
InitInput ==
  /\ script = <<>>
  /\ other \in { [_script |-> "null", _scriptBuffer |-> buf] : buf \in InputBuffers }
  /\ op = "fromBufferReader"
  /\ arg = EmptyBuf
  /\ ret = NoResult

\* script.add(opcodenum) and script.prepend(opcodenum)
InputAddOpcode(opcodenum, prepend) ==
  /\ Len(script) < MaxInputChunks
  /\ LET r == addOpcode(script, opcodenum, prepend) IN
       /\ script' = r.chunks
       /\ ret' = [call |-> IF prepend THEN "prepend" ELSE "add", err |-> r.err]
  /\ op' = IF prepend THEN "prepend" ELSE "add"
  /\ arg' = opcodenum
  /\ other' = other

\* script.add(buf) and script.prepend(buf)
InputAddBuffer(buf, prepend) ==
  /\ Len(script) < MaxInputChunks
  /\ LET r == addBuffer(script, buf, prepend) IN
       /\ script' = r.chunks
       /\ ret' = [call |-> IF prepend THEN "prepend" ELSE "add", err |-> r.err]
  /\ op' = IF prepend THEN "prepend" ELSE "add"
  /\ arg' = buf
  /\ other' = other

\* script.removeCodeseparators()
InputRemoveCodeseparators ==
  /\ script' = removeCodeseparators(script)
  /\ ret' = [call |-> "removeCodeseparators", err |-> "none"]
  /\ op' = "removeCodeseparators"
  /\ arg' = EmptyBuf
  /\ other' = other

\* input.setScript(script), script instanceof Script
SetScriptToScript ==
  /\ other' = [_script |-> "script", _scriptBuffer |-> toBuffer(script)]
  /\ ret' = [call |-> "setScript", err |-> "none"]
  /\ op' = "setScript"
  /\ arg' = [kind |-> "Script", before |-> other]
  /\ script' = script

\* input.setScript(buf), buf a Buffer
SetScriptToBuffer(buf) ==
  /\ other' = [_script |-> "null", _scriptBuffer |-> buf]
  /\ ret' = [call |-> "setScript", err |-> "none"]
  /\ op' = "setScript"
  /\ arg' = [kind |-> "Buffer", before |-> other]
  /\ script' = script

\* input.setScript(x), x neither a Script nor a Buffer: throws TypeError
SetScriptToOther ==
  /\ ret' = [call |-> "setScript", err |-> "InvalidArgument"]
  /\ op' = "setScript"
  /\ arg' = [kind |-> "other", before |-> other]
  /\ UNCHANGED <<script, other>>

\* script = input.script: the getter parses _scriptBuffer when _script is
\* not set
GetScript ==
  /\ IF other._script = "null" THEN
       LET r == fromBuffer(other._scriptBuffer) IN
         /\ ret' = [call |-> "script", err |-> r.err]
         /\ IF r.err # "none" THEN UNCHANGED <<script, other>>
            ELSE /\ script' = r.chunks
                 /\ other' = [other EXCEPT !._script = "script"]
     ELSE
       /\ ret' = [call |-> "script", err |-> "none"]
       /\ UNCHANGED <<script, other>>
  /\ op' = "script"
  /\ arg' = EmptyBuf

\* input.toBufferWriter(): the script bytes written after their length
ToBufferWriter ==
  /\ ret.call # "toBufferWriter"
  /\ ret' = [call |-> "toBufferWriter", err |-> "none",
             bytes |-> other._scriptBuffer]
  /\ UNCHANGED <<script, other, op, arg>>

NextInput ==
  \/ \E o \in InputOpcodes, prepend \in BOOLEAN : InputAddOpcode(o, prepend)
  \/ \E buf \in InputPayloads, prepend \in BOOLEAN : InputAddBuffer(buf, prepend)
  \/ InputRemoveCodeseparators
  \/ SetScriptToScript
  \/ \E buf \in InputBuffers : SetScriptToBuffer(buf)
  \/ SetScriptToOther
  \/ GetScript
  \/ ToBufferWriter

SpecInput == InitInput /\ [][NextInput]_vars

(***************************************************************************)
(* C15: for a transaction Input, after any sequence of setScript(Script),  *)
(* setScript(Buffer), reads of the script property, and mutator calls on   *)
(* the Script object obtained from that property or passed to setScript,   *)
(* the script bytes the input serializes in toBufferWriter (_scriptBuffer) *)
(* equal input.script.toBuffer(); and a setScript call with an argument    *)
(* that is neither a Script nor a byte buffer fails and leaves both the    *)
(* cached script and the script bytes unchanged.                            *)
(***************************************************************************)
\* input.script can be read: it is cached, or _scriptBuffer parses
InputScriptReadable ==
  other._script = "script" \/ fromBuffer(other._scriptBuffer).err = "none"

\* the chunks of input.script
InputScriptChunks ==
  IF other._script = "script" THEN script
  ELSE fromBuffer(other._scriptBuffer).chunks

C15_ScriptBytesInSync ==
  /\ (ret.call = "toBufferWriter" /\ InputScriptReadable) =>
        ret.bytes = toBuffer(InputScriptChunks)
  /\ (ret.call = "setScript" /\ arg.kind = "other") =>
        (ret.err = "InvalidArgument" /\ other = arg.before)

====
